---- MODULE Spec2Model ----
(***************************************************************************)
(* Convex hull builders of convex_hull/algorithms: the monotone-chain      *)
(* builder (andrews.py), the divide-and-conquer builder (quickhull.py),    *)
(* the trace adapter (adapter.py) and the compute endpoint (API/main.py).  *)
(*                                                                         *)
(* A Point is a pair <<x, y>>; p[1] is Python's p[0] and p[2] is p[1].     *)
(* A Python list is a sequence.  A dict is a record.  A trace entry that   *)
(* is a bare list (not a dict) is the record [snapshot |-> list], so that  *)
(* dict entries and list entries can live in one sequence.                 *)
(***************************************************************************)
EXTENDS Integers, Sequences, FiniteSets, TLC

(***************************************************************************)
(* Bounds of the checked input space.                                      *)
(***************************************************************************)
MaxLen == 4

Coords == 0 .. 2

Point == Coords \X Coords

RECURSIVE SeqsUpTo(_, _)
SeqsUpTo(S, n) ==
    IF n = 0 THEN {<<>>}
    ELSE LET shorter == SeqsUpTo(S, n - 1)
         IN  shorter \cup {Append(s, e) : s \in {t \in shorter : Len(t) = n - 1}, e \in S}

Inputs == SeqsUpTo(Point, MaxLen)

(***************************************************************************)
(* Python list helpers.                                                    *)
(***************************************************************************)
Last(s) == s[Len(s)]

Front(s) == SubSeq(s, 1, Len(s) - 1)

\* reversed() giving the list in its own order
Reverse_Identity(s) == s

Reverse(s) == [i \in 1 .. Len(s) |-> s[Len(s) + 1 - i]]

Range(s) == {s[i] : i \in 1 .. Len(s)}

Contains(s, e) == \E i \in 1 .. Len(s) : s[i] = e

\* list.index(e): the first position holding e (0 when absent: ValueError)
IndexOf(s, e) ==
    IF Contains(s, e)
    THEN CHOOSE i \in 1 .. Len(s) : s[i] = e /\ \A j \in 1 .. i - 1 : s[j] # e
    ELSE 0

\* list.insert(idx, e) with idx the position found by index()
InsertAt(s, idx, e) == SubSeq(s, 1, idx - 1) \o <<e>> \o SubSeq(s, idx, Len(s))

RECURSIVE SumSeq(_)
SumSeq(s) == IF s = <<>> THEN 0 ELSE s[1] + SumSeq(Tail(s))

\* a bare-list entry holding the points in reverse order
Bare_Reversed(list) == [snapshot |-> Reverse(list)]

\* A trace entry that is a bare list of points
Bare(list) == [snapshot |-> list]

IsDict(entry) == "hull" \in DOMAIN entry

(***************************************************************************)
(* Arithmetic.  Coordinates are Python floats (Point = Tuple[float,        *)
(* float]): the result of every subtraction and multiplication is rounded  *)
(* to the nearest value with Mantissa significant bits, ties to the even   *)
(* one.  Python has 53 bits; the model keeps the rounding and shortens the *)
(* mantissa.  Integers up to 2^Mantissa are exact.                         *)
(***************************************************************************)
Mantissa == 3

\* the spacing of the representable values around x >= 0
RECURSIVE Ulp(_, _)
Ulp(x, u) == IF x < (2 ^ Mantissa) * u THEN u ELSE Ulp(x, 2 * u)

\* x >= 0 rounded to a multiple of u, ties to the even multiple
RoundTo(x, u) ==
    IF 2 * (x % u) < u \/ (2 * (x % u) = u /\ (x \div u) % 2 = 0)
    THEN (x \div u) * u
    ELSE ((x \div u) + 1) * u

RoundUp(x) == IF x <= 2 ^ Mantissa THEN x ELSE RoundTo(x, Ulp(x, 1))

Sign(x) == IF x > 0 THEN 1 ELSE IF x < 0 THEN -1 ELSE 0

Abs(x) == IF x < 0 THEN -x ELSE x

Round(x) == Sign(x) * RoundUp(Abs(x))

FloatSub(x, y) == Round(x - y)

FloatMul(x, y) == Round(x * y)

(***************************************************************************)
(* Geometry primitives.                                                    *)
(***************************************************************************)
orientation(p, q, r) ==
    FloatSub(FloatMul(FloatSub(q[1], p[1]), FloatSub(r[2], p[2])),
             FloatMul(FloatSub(q[2], p[2]), FloatSub(r[1], p[1])))

findSide(p1, p2, p) ==
    Sign(FloatSub(FloatMul(FloatSub(p[2], p1[2]), FloatSub(p2[1], p1[1])),
                  FloatMul(FloatSub(p2[2], p1[2]), FloatSub(p[1], p1[1]))))

lineDist(p1, p2, p) ==
    Abs(FloatSub(FloatMul(FloatSub(p[2], p1[2]), FloatSub(p2[1], p1[1])),
                 FloatMul(FloatSub(p2[2], p1[2]), FloatSub(p[1], p1[1]))))

(***************************************************************************)
(* andrews.py: merge sort by x, then y.                                    *)
(***************************************************************************)
\* merge with the tie on x left unresolved (y ignored)
RECURSIVE merge_XOnly(_, _)
merge_XOnly(left, right) ==
    IF left = <<>> THEN right
    ELSE IF right = <<>> THEN left
    ELSE IF left[1][1] < right[1][1]
         THEN <<left[1]>> \o merge_XOnly(Tail(left), right)
         ELSE <<right[1]>> \o merge_XOnly(left, Tail(right))

RECURSIVE merge(_, _)
merge(left, right) ==
    IF left = <<>> THEN right
    ELSE IF right = <<>> THEN left
    ELSE IF left[1][1] < right[1][1]
            \/ (left[1][1] = right[1][1] /\ left[1][2] < right[1][2])
         THEN <<left[1]>> \o merge(Tail(left), right)
         ELSE <<right[1]>> \o merge(left, Tail(right))

RECURSIVE merge_sort(_)
merge_sort(points) ==
    IF Len(points) <= 1 THEN points
    ELSE LET mid == Len(points) \div 2
         IN  merge(merge_sort(SubSeq(points, 1, mid)),
                   merge_sort(SubSeq(points, mid + 1, Len(points))))

(***************************************************************************)
(* andrews.py: one chain scan.  st = [chain, steps, step_counter].         *)
(***************************************************************************)
\* a Step numbered from 1
AndrewsStep_OneBased(counter, chain, description, active, phase) ==
    [step |-> counter + 1, hull |-> chain, description |-> description,
     active |-> active, phase |-> phase]

AndrewsStep(counter, chain, description, active, phase) ==
    [step |-> counter, hull |-> chain, description |-> description,
     active |-> active, phase |-> phase]

\* the while loop popping on right turns only (orientation < 0)
RECURSIVE PopWhile_KeepCollinear(_, _, _, _)
PopWhile_KeepCollinear(st, p, phase, step_mode) ==
    LET n == Len(st.chain)
    IN  IF n >= 2 /\ orientation(st.chain[n - 1], st.chain[n], p) < 0
        THEN LET removed == st.chain[n]
                 popped == Front(st.chain)
             IN  PopWhile_KeepCollinear(
                   IF step_mode
                   THEN [chain |-> popped,
                         steps |-> Append(st.steps,
                                     AndrewsStep(st.step_counter, popped,
                                                 <<"Removed point", removed>>,
                                                 <<removed>>, phase)),
                         step_counter |-> st.step_counter + 1]
                   ELSE [st EXCEPT !.chain = popped],
                   p, phase, step_mode)
        ELSE st

\* the while loop entered with one vertex on the chain: the bottom vertex is popped too
RECURSIVE PopWhile_PopsBottom(_, _, _, _)
PopWhile_PopsBottom(st, p, phase, step_mode) ==
    LET n == Len(st.chain)
    IN  IF n >= 1 /\ (n = 1 \/ orientation(st.chain[n - 1], st.chain[n], p) <= 0)
        THEN LET removed == st.chain[n]
                 popped == Front(st.chain)
             IN  PopWhile_PopsBottom(
                   IF step_mode
                   THEN [chain |-> popped,
                         steps |-> Append(st.steps,
                                     AndrewsStep(st.step_counter, popped,
                                                 <<"Removed point", removed>>,
                                                 <<removed>>, phase)),
                         step_counter |-> st.step_counter + 1]
                   ELSE [st EXCEPT !.chain = popped],
                   p, phase, step_mode)
        ELSE st

\* the while loop: pop while the last two vertices and p do not turn left
RECURSIVE PopWhile(_, _, _, _)
PopWhile(st, p, phase, step_mode) ==
    LET n == Len(st.chain)
    IN  IF n >= 2 /\ orientation(st.chain[n - 1], st.chain[n], p) <= 0
        THEN LET removed == st.chain[n]
                 popped == Front(st.chain)
             IN  PopWhile(
                   IF step_mode
                   THEN [chain |-> popped,
                         steps |-> Append(st.steps,
                                     AndrewsStep(st.step_counter, popped,
                                                 <<"Removed point", removed>>,
                                                 <<removed>>, phase)),
                         step_counter |-> st.step_counter + 1]
                   ELSE [st EXCEPT !.chain = popped],
                   p, phase, step_mode)
        ELSE st

\* the for loop over pts from position i on
RECURSIVE Scan(_, _, _, _, _)
Scan(st, pts, i, phase, step_mode) ==
    IF i > Len(pts) THEN st
    ELSE LET p == pts[i]
             afterPop == PopWhile(st, p, phase, step_mode)
             pushed == Append(afterPop.chain, p)
         IN  Scan(
               IF step_mode
               THEN [chain |-> pushed,
                     steps |-> Append(afterPop.steps,
                                 AndrewsStep(afterPop.step_counter, pushed,
                                             <<"Added point", p, phase, i, Len(pts)>>,
                                             <<p>>, phase)),
                     step_counter |-> afterPop.step_counter + 1]
               ELSE [afterPop EXCEPT !.chain = pushed],
               pts, i + 1, phase, step_mode)

\* the two chains concatenated in the other order: upper[:-1] + lower[:-1]
Combine_UpperFirst(lower, upper) == Front(upper) \o Front(lower)

\* lower[:-1] + upper[:-1]
Combine(lower, upper) == Front(lower) \o Front(upper)

\* andrews_algorithm with the degenerate threshold at two points (len <= 2)
andrews_algorithm_TwoPointShortcut(points, step_mode) ==
    IF Len(points) <= 2
    THEN IF step_mode
         THEN <<AndrewsStep(0, points, <<"Only one or zero points">>, points, "complete")>>
         ELSE points
    ELSE LET pts == merge_sort(points)
             lo == Scan([chain |-> <<>>, steps |-> <<>>, step_counter |-> 0],
                        pts, 1, "lower_hull", step_mode)
             up == Scan([chain |-> <<>>, steps |-> lo.steps, step_counter |-> lo.step_counter],
                        Reverse(pts), 1, "upper_hull", step_mode)
             hull_ == Combine(lo.chain, up.chain)
         IN  IF step_mode
             THEN Append(up.steps,
                         AndrewsStep(up.step_counter, hull_, <<"Combined">>, <<>>, "complete"))
             ELSE hull_

\* returns the final hull (step_mode = FALSE) or the list of step dicts
andrews_algorithm(points, step_mode) ==
    IF Len(points) <= 1
    THEN IF step_mode
         THEN <<AndrewsStep(0, points, <<"Only one or zero points">>, points, "complete")>>
         ELSE points
    ELSE LET pts == merge_sort(points)
             lo == Scan([chain |-> <<>>, steps |-> <<>>, step_counter |-> 0],
                        pts, 1, "lower_hull", step_mode)
             up == Scan([chain |-> <<>>, steps |-> lo.steps, step_counter |-> lo.step_counter],
                        Reverse(pts), 1, "upper_hull", step_mode)
             hull_ == Combine(lo.chain, up.chain)
         IN  IF step_mode
             THEN Append(up.steps,
                         AndrewsStep(up.step_counter, hull_, <<"Combined">>, <<>>, "complete"))
             ELSE hull_

(***************************************************************************)
(* quickhull.py: the recursive quickHull.  A pending call is a frame       *)
(* [a, n, p1, p2, side]; `hull` is the module-level working hull, `steps`  *)
(* the collector (used only when step_mode, i.e. steps is not None).       *)
(* Positions are 1-based, so ind = 0 stands for Python's ind = -1.         *)
(***************************************************************************)
Frame(a, p1, p2, side) == [a |-> a, n |-> Len(a), p1 |-> p1, p2 |-> p2, side |-> side]

\* [a[i] for i in range(n) if findSide(p1, p2, a[i]) == side]
TestPoints(a, n, p1, p2, side) ==
    SelectSeq(SubSeq(a, 1, n), LAMBDA q : findSide(p1, p2, q) = side)

\* the scan with temp >= max_dist: the last of several farthest points wins
RECURSIVE FindFarthest_LastWins(_, _, _, _, _, _, _, _)
FindFarthest_LastWins(a, n, p1, p2, side, i, ind, max_dist) ==
    IF i > n THEN ind
    ELSE LET temp == lineDist(p1, p2, a[i])
         IN  IF findSide(p1, p2, a[i]) = side /\ temp >= max_dist
             THEN FindFarthest_LastWins(a, n, p1, p2, side, i + 1, i, temp)
             ELSE FindFarthest_LastWins(a, n, p1, p2, side, i + 1, ind, max_dist)

\* the scan for the farthest point: [ind, max_dist] after positions i .. n
RECURSIVE FindFarthest(_, _, _, _, _, _, _, _)
FindFarthest(a, n, p1, p2, side, i, ind, max_dist) ==
    IF i > n THEN ind
    ELSE LET temp == lineDist(p1, p2, a[i])
         IN  IF findSide(p1, p2, a[i]) = side /\ temp > max_dist
             THEN FindFarthest(a, n, p1, p2, side, i + 1, i, temp)
             ELSE FindFarthest(a, n, p1, p2, side, i + 1, ind, max_dist)

\* the subdivision step with the dividing line from p2 to p1
SubdivisionStep_ReversedLine(hull_, f) ==
    [hull |-> hull_, active |-> <<>>, dividing_line |-> <<f.p2, f.p1>>,
     test_points |-> TestPoints(f.a, f.n, f.p1, f.p2, f.side)]

\* the subdivision step recorded at entry
SubdivisionStep(hull_, f) ==
    [hull |-> hull_, active |-> <<>>, dividing_line |-> <<f.p1, f.p2>>,
     test_points |-> TestPoints(f.a, f.n, f.p1, f.p2, f.side)]

\* ind == -1: make sure both endpoints are in the hull
EnsureEndpoints(hull_, p1, p2) ==
    LET h1 == IF Contains(hull_, p1) THEN hull_ ELSE Append(hull_, p1)
    IN  IF Contains(h1, p2) THEN h1 ELSE Append(h1, p2)

\* the insertion with the coordinates of farthest exchanged
InsertFarthest_Swapped(hull_, p2, farthest) ==
    IF Contains(hull_, p2)
    THEN InsertAt(hull_, IndexOf(hull_, p2), <<farthest[2], farthest[1]>>)
    ELSE Append(hull_, <<farthest[2], farthest[1]>>)

\* the insertion one position later: after p2
InsertFarthest_AfterP2(hull_, p2, farthest) ==
    IF Contains(hull_, p2)
    THEN InsertAt(hull_, IndexOf(hull_, p2) + 1, farthest)
    ELSE Append(hull_, farthest)

\* insert farthest before p2, or append it when p2 is absent
InsertFarthest(hull_, p2, farthest) ==
    IF Contains(hull_, p2)
    THEN InsertAt(hull_, IndexOf(hull_, p2), farthest)
    ELSE Append(hull_, farthest)

\* the second subset taken with the points on the line farthest -> p2 included
right_set_WithCollinear(a, farthest, p2, side) ==
    SelectSeq(a, LAMBDA p : findSide(farthest, p2, p) # -side)

left_set(a, p1, farthest, side) ==
    SelectSeq(a, LAMBDA p : p # farthest /\ findSide(p1, farthest, p) = side)

right_set(a, farthest, p2, side) ==
    SelectSeq(a, LAMBDA p : p # farthest /\ findSide(farthest, p2, p) = side)

\* ind == -1: the endpoints are made sure of, no further call
NoFarthest(h, steps1, step_mode) ==
    [hull |-> h,
     steps |-> IF step_mode
               THEN Append(steps1, [hull |-> h, active |-> <<>>])
               ELSE steps1,
     calls |-> <<>>]

\* farthest was inserted (h is the hull after the insertion): the Step and the
\* frames of the two recursive calls
FoundFarthest(f, h, steps1, step_mode, farthest) ==
    [hull |-> h,
     steps |-> IF step_mode
               THEN Append(steps1, [hull |-> h, active |-> <<farthest>>])
               ELSE steps1,
     calls |-> << Frame(left_set(f.a, f.p1, farthest, f.side),
                        f.p1, farthest, f.side),
                  Frame(right_set(f.a, farthest, f.p2, f.side),
                        farthest, f.p2, f.side) >>]

\* the body after the scan has set ind (steps1: the steps after the
\* subdivision step)
AfterScan(f, hull_, steps1, step_mode, ind) ==
    IF ind = 0
    THEN NoFarthest(EnsureEndpoints(hull_, f.p1, f.p2), steps1, step_mode)
    ELSE FoundFarthest(f, InsertFarthest(hull_, f.p2, f.a[ind]), steps1, step_mode,
                       f.a[ind])

\* one execution of quickHull's body up to its two recursive calls:
\* the new hull, the new steps, and the frames of the calls it makes, in order
quickHull(f, hull_, steps, step_mode) ==
    AfterScan(f, hull_,
              IF step_mode /\ f.n > 0
              THEN Append(steps, SubdivisionStep(hull_, f))
              ELSE steps,
              step_mode,
              FindFarthest(f.a, f.n, f.p1, f.p2, f.side, 1, 0, 0))

\* the whole recursion below the pending calls of `stack` (first = next to run)
RECURSIVE RunCalls(_, _, _, _)
\* the calls made by the body that returned r run before the pending ones
RunRest(r, rest, step_mode) ==
    RunCalls(r.calls \o rest, r.hull, r.steps, step_mode)

RunCalls(stack, hull_, steps, step_mode) ==
    IF stack = <<>> THEN [hull |-> hull_, steps |-> steps]
    ELSE RunRest(quickHull(stack[1], hull_, steps, step_mode), Tail(stack), step_mode)

(***************************************************************************)
(* quickhull.py: quickhull_algorithm.                                      *)
(***************************************************************************)
\* the scan for the first minimum-x position (from position i on)
RECURSIVE ScanMin(_, _, _)
ScanMin(points, i, min_x) ==
    IF i > Len(points) THEN min_x
    ELSE ScanMin(points, i + 1, IF points[i][1] < points[min_x][1] THEN i ELSE min_x)

RECURSIVE ScanMax(_, _, _)
ScanMax(points, i, max_x) ==
    IF i > Len(points) THEN max_x
    ELSE ScanMax(points, i + 1, IF points[i][1] > points[max_x][1] THEN i ELSE max_x)

\* dist of the partition loop
PartitionDist(pmin, pmax, p) ==
    FloatSub(FloatMul(FloatSub(pmax[1], pmin[1]), FloatSub(p[2], pmin[2])),
             FloatMul(FloatSub(pmax[2], pmin[2]), FloatSub(p[1], pmin[1])))

upper_points(points, pmin, pmax) ==
    SelectSeq(points, LAMBDA p : p # pmin /\ p # pmax /\ PartitionDist(pmin, pmax, p) > 0)

lower_points(points, pmin, pmax) ==
    SelectSeq(points, LAMBDA p : p # pmin /\ p # pmax /\ PartitionDist(pmin, pmax, p) < 0)

\* The sort key atan2(y - cy, x - cx), cx = sum(x)/len, cy = sum(y)/len, kept exact:
\* the vector from the centroid scaled by len(hull), v = <<n*x - sum x, n*y - sum y>>.
\* atan2 ranges over (-pi, pi]: dy < 0 gives (-pi, 0); dy = 0 and dx >= 0 gives 0;
\* dy > 0 gives (0, pi); dy = 0 and dx < 0 gives pi.
AngleVec(hull_, p) ==
    LET n == Len(hull_)
    IN  << n * p[1] - SumSeq([i \in 1 .. n |-> hull_[i][1]]),
           n * p[2] - SumSeq([i \in 1 .. n |-> hull_[i][2]]) >>

AngleClass(v) ==
    IF v[2] < 0 THEN 0
    ELSE IF v[2] > 0 THEN 2
    ELSE IF v[1] >= 0 THEN 1 ELSE 3

\* angle(u) < angle(v)
AngleLess(u, v) ==
    \/ AngleClass(u) < AngleClass(v)
    \/ /\ AngleClass(u) = AngleClass(v)
       /\ AngleClass(u) \in {0, 2}
       /\ u[1] * v[2] - u[2] * v[1] > 0

\* the insertion of a sort by descending angle (clockwise)
RECURSIVE InsertByAngle_Descending(_, _, _)
InsertByAngle_Descending(sorted, p, hull_) ==
    IF sorted = <<>> THEN <<p>>
    ELSE IF AngleLess(AngleVec(hull_, sorted[1]), AngleVec(hull_, p))
         THEN <<p>> \o sorted
         ELSE <<sorted[1]>> \o InsertByAngle_Descending(Tail(sorted), p, hull_)

\* sorted(hull, key=angle): stable, so an element goes after every element
\* already placed whose key is not greater
RECURSIVE InsertByAngle(_, _, _)
InsertByAngle(sorted, p, hull_) ==
    IF sorted = <<>> THEN <<p>>
    ELSE IF AngleLess(AngleVec(hull_, p), AngleVec(hull_, sorted[1]))
         THEN <<p>> \o sorted
         ELSE <<sorted[1]>> \o InsertByAngle(Tail(sorted), p, hull_)

RECURSIVE SortFrom(_, _, _)
SortFrom(hull_, i, sorted) ==
    IF i > Len(hull_) THEN sorted
    ELSE SortFrom(hull_, i + 1, InsertByAngle(sorted, hull_[i], hull_))

\* final ordering (counterclockwise)
FinalOrdering(hull_) ==
    IF Len(hull_) > 2 THEN SortFrom(hull_, 1, <<>>) ELSE hull_

\* hull = [pmin, pmax], the first Step and the two top-level quickHull calls
TopLevelCalls(points, pmin, pmax, step_mode) ==
    RunCalls(<< Frame(upper_points(points, pmin, pmax), pmin, pmax, 1),
                Frame(lower_points(points, pmin, pmax), pmax, pmin, 1) >>,
             <<pmin, pmax>>,
             IF step_mode
             THEN <<[hull |-> <<pmin, pmax>>, active |-> <<pmin, pmax>>]>>
             ELSE <<>>,
             step_mode)

\* the last step recorded with the hull before the final ordering
Return_UnsortedLastStep(r, final, step_mode) ==
    [ret |-> IF step_mode
             THEN Append(r.steps, [hull |-> r.hull, active |-> <<>>])
             ELSE final,
     hull |-> final]

\* the terminal Step and the returned value, final being the ordered hull
Return(r, final, step_mode) ==
    [ret |-> IF step_mode
             THEN Append(r.steps, [hull |-> final, active |-> <<>>])
             ELSE final,
     hull |-> final]

\* r: hull and steps when the two top-level calls have returned
FinalStep_Unsorted(r, step_mode) == Return_UnsortedLastStep(r, FinalOrdering(r.hull), step_mode)

FinalStep(r, step_mode) == Return(r, FinalOrdering(r.hull), step_mode)

\* quickhull_algorithm recording its last step before the final ordering
quickhull_algorithm_UnsortedLastStep(points, step_mode) ==
    IF Len(points) < 3
    THEN [ret |-> IF step_mode THEN <<Bare(points)>> ELSE points, hull |-> <<>>]
    ELSE FinalStep_Unsorted(TopLevelCalls(points, points[ScanMin(points, 2, 1)],
                                          points[ScanMax(points, 2, 1)], step_mode),
                            step_mode)

\* returns [ret, hull]: the returned value (final hull, or list of steps) and
\* the module-level hull the call leaves behind
quickhull_algorithm(points, step_mode) ==
    IF Len(points) < 3
    THEN [ret |-> IF step_mode THEN <<Bare(points)>> ELSE points, hull |-> <<>>]
    ELSE FinalStep(TopLevelCalls(points, points[ScanMin(points, 2, 1)],
                                 points[ScanMax(points, 2, 1)], step_mode),
                   step_mode)

(***************************************************************************)
(* adapter.py.  A call either returns a value or raises.  A raw entry is   *)
(* a dict (record) or a bare list (Bare).  set(entry) is the set of keys   *)
(* of a dict and the set of elements of a list; entry[-1] is the last      *)
(* element of a list and a KeyError on a dict, whose keys are strings.     *)
(***************************************************************************)
Value(v) == [raised |-> FALSE, value |-> v]

Raise(e) == [raised |-> TRUE, error |-> e]

PySet(entry) == IF IsDict(entry) THEN DOMAIN entry ELSE Range(entry.snapshot)

\* bool(entry): a non-empty list or dict
Truthy(entry) == IF IsDict(entry) THEN DOMAIN entry # {} ELSE entry.snapshot # <<>>

\* list(a_set): the elements in the set's iteration order, which the language
\* leaves to the implementation; one fixed order is taken here
RECURSIVE ListOfSet(_)
ListOfSet(S) ==
    IF S = {} THEN <<>>
    ELSE LET e == CHOOSE x \in S : TRUE IN <<e>> \o ListOfSet(S \ {e})

\* detect_active_points without the fallback to the last point
detect_active_points_NoFallback(current_hull, previous_hull) ==
    LET current_set == PySet(current_hull)
        previous_set == PySet(previous_hull)
        added == ListOfSet(current_set \ previous_set)
        removed == ListOfSet(previous_set \ current_set)
    IN  Value(added \o removed)

detect_active_points(current_hull, previous_hull) ==
    LET current_set == PySet(current_hull)
        previous_set == PySet(previous_hull)
        added == ListOfSet(current_set \ previous_set)
        removed == ListOfSet(previous_set \ current_set)
        active == added \o removed
    IN  IF active = <<>> /\ Truthy(current_hull)
        THEN IF IsDict(current_hull)
             THEN Raise("KeyError")
             ELSE Value(<<Last(current_hull.snapshot)>>)
        ELSE Value(active)

\* the loop of the "andrews" branch from entry i on
RECURSIVE AdaptLoop(_, _, _, _)
AdaptLoop(raw_steps, i, previous_hull, viz_steps) ==
    IF i > Len(raw_steps) THEN Value(viz_steps)
    ELSE LET hull_ == raw_steps[i]
             active == detect_active_points(hull_, previous_hull)
         IN  IF active.raised THEN active
             ELSE AdaptLoop(raw_steps, i + 1, hull_,
                            Append(viz_steps, [hull |-> hull_, active |-> active.value]))

\* In the output of the "andrews" branch and of the fallback of the "quickhull"
\* branch the `hull` of a step is the raw entry itself, so it is kept as the
\* entry is encoded: Bare(list) for a list of points, the record for a dict.
adapt_for_visualization(raw_steps, all_points, algorithm) ==
    IF raw_steps = <<>> THEN Value(<<>>)
    ELSE IF algorithm = "quickhull"
    THEN Value([i \in 1 .. Len(raw_steps) |->
                  IF IsDict(raw_steps[i]) THEN raw_steps[i]
                  ELSE [hull |-> raw_steps[i], active |-> <<>>]])
    ELSE AdaptLoop(raw_steps, 1, Bare(<<>>), <<>>)

(***************************************************************************)
(* API/main.py: compute_algorithm.  The response is the returned body with *)
(* status 200, or the HTTPException's status and detail.                   *)
(* computation_time_seconds (a wall-clock difference) is left out.         *)
(* The result is [response, hull]: hull is the module-level hull of        *)
(* quickhull.py after the call, given the one before it.                   *)
(***************************************************************************)
\* the response built from the adapter's outcome
ComputeResponse(request, run, viz_steps) ==
    [response |->
       IF viz_steps.raised
       THEN [status |-> 500, detail |-> "Algorithm error"]
       ELSE [status |-> 200, total_steps |-> Len(viz_steps.value),
             steps |-> viz_steps.value,
             points |-> request.points, algorithm |-> request.algorithm],
     hull |-> run.hull]

\* the adapter applied to what the builder returned
AdaptRun(request, run) ==
    ComputeResponse(request, run,
                    adapt_for_visualization(run.ret, request.points, request.algorithm))

compute_algorithm(request, hull_before) ==
    IF request.points = <<>>
    THEN [response |-> [status |-> 400, detail |-> "No points provided"],
          hull |-> hull_before]
    ELSE IF Len(request.points) < 3
    THEN [response |-> [status |-> 200, total_steps |-> 1,
                        steps |-> <<[hull |-> request.points, active |-> <<>>]>>,
                        points |-> request.points, algorithm |-> request.algorithm],
          hull |-> hull_before]
    ELSE IF request.algorithm \notin {"andrews", "quickhull"}
    THEN [response |-> [status |-> 500, detail |-> "Algorithm error"],
          hull |-> hull_before]
    ELSE AdaptRun(request,
                  IF request.algorithm = "andrews"
                  THEN [ret |-> andrews_algorithm(request.points, TRUE),
                        hull |-> hull_before]
                  ELSE quickhull_algorithm(request.points, TRUE))

(***************************************************************************)
(* State: one request's points, the module-level hull of quickhull.py and  *)
(* the values the calls have returned so far.  The driver calls each entry *)
(* point once on the request's points: the final hull first, then the      *)
(* step-by-step run (the order of convex_hull/main.py), monotone chain     *)
(* before divide and conquer.                                              *)
(***************************************************************************)
VARIABLES points, hull, andrews_final, andrews_steps, quickhull_final, quickhull_steps,
          compute_andrews, compute_quickhull, invocations

vars == <<points, hull, andrews_final, andrews_steps, quickhull_final, quickhull_steps,
          compute_andrews, compute_quickhull, invocations>>

\* what the sequential driver holds: the request and the returned values
driverVars == <<points, andrews_final, andrews_steps, quickhull_final, quickhull_steps,
                compute_andrews, compute_quickhull>>

\* "not called yet"
NotCalled == [called |-> FALSE]

Returned(v) == [called |-> TRUE, value |-> v]

Init ==
    /\ points \in Inputs
    /\ hull = <<>>
    /\ andrews_final = NotCalled
    /\ andrews_steps = NotCalled
    /\ quickhull_final = NotCalled
    /\ quickhull_steps = NotCalled
    /\ compute_andrews = NotCalled
    /\ compute_quickhull = NotCalled
    /\ invocations = <<>>

AndrewsFinal ==
    /\ ~andrews_final.called
    /\ andrews_final' = Returned(andrews_algorithm(points, FALSE))
    /\ UNCHANGED <<points, hull, andrews_steps, quickhull_final, quickhull_steps,
                   compute_andrews, compute_quickhull, invocations>>

AndrewsTrace ==
    /\ andrews_final.called
    /\ ~andrews_steps.called
    /\ andrews_steps' = Returned(andrews_algorithm(points, TRUE))
    /\ UNCHANGED <<points, hull, andrews_final, quickhull_final, quickhull_steps,
                   compute_andrews, compute_quickhull, invocations>>

QuickhullFinal ==
    /\ andrews_steps.called
    /\ ~quickhull_final.called
    /\ LET r == quickhull_algorithm(points, FALSE)
       IN  /\ quickhull_final' = Returned(r.ret)
           /\ hull' = r.hull
    /\ UNCHANGED <<points, andrews_final, andrews_steps, quickhull_steps,
                   compute_andrews, compute_quickhull, invocations>>

QuickhullTrace ==
    /\ quickhull_final.called
    /\ ~quickhull_steps.called
    /\ LET r == quickhull_algorithm(points, TRUE)
       IN  /\ quickhull_steps' = Returned(r.ret)
           /\ hull' = r.hull
    /\ UNCHANGED <<points, andrews_final, andrews_steps, quickhull_final,
                   compute_andrews, compute_quickhull, invocations>>

\* POST /api/compute with algorithm "andrews"
ComputeAndrews ==
    /\ quickhull_steps.called
    /\ ~compute_andrews.called
    /\ LET r == compute_algorithm([algorithm |-> "andrews", points |-> points], hull)
       IN  /\ compute_andrews' = Returned(r.response)
           /\ hull' = r.hull
    /\ UNCHANGED <<points, andrews_final, andrews_steps, quickhull_final, quickhull_steps,
                   compute_quickhull, invocations>>

\* POST /api/compute with algorithm "quickhull"
ComputeQuickhull ==
    /\ compute_andrews.called
    /\ ~compute_quickhull.called
    /\ LET r == compute_algorithm([algorithm |-> "quickhull", points |-> points], hull)
       IN  /\ compute_quickhull' = Returned(r.response)
           /\ hull' = r.hull
    /\ UNCHANGED <<points, andrews_final, andrews_steps, quickhull_final, quickhull_steps,
                   compute_andrews, invocations>>

Next ==
    \/ AndrewsFinal
    \/ AndrewsTrace
    \/ QuickhullFinal
    \/ QuickhullTrace
    \/ ComputeAndrews
    \/ ComputeQuickhull

Spec == Init /\ [][Next]_vars

(***************************************************************************)
(* Two quickhull_algorithm invocations in trace mode running in two        *)
(* threads (the endpoint is a plain `def`, which the server runs on a      *)
(* thread pool).  Each invocation has its own locals (points, steps, the   *)
(* pending quickHull calls); `hull` is the one module-level variable both  *)
(* read and write.  A thread is switched between the steps below: the      *)
(* entry (hull = []), the initialisation up to the partition, each         *)
(* quickHull body, and the final ordering with the return.                 *)
(***************************************************************************)
MaxConcLen == 3

Threads == {1, 2}

\* the two clients draw their points from two triangles that share an edge
ConcPoints(t) ==
    IF t = 1 THEN {<<0, 0>>, <<1, 0>>, <<0, 1>>} ELSE {<<0, 0>>, <<1, 0>>, <<1, 1>>}

\* requests of two or more pairwise distinct points
ConcInputs(t) ==
    {pts \in SeqsUpTo(ConcPoints(t), MaxConcLen) :
        /\ Len(pts) >= 2
        /\ \A i, j \in 1 .. Len(pts) : i # j => pts[i] # pts[j]}


NewInvocation(pts) ==
    [points |-> pts, pc |-> "start", steps |-> <<>>, stack |-> <<>>, ret |-> <<>>]

ConcInit ==
    /\ \E pts1 \in ConcInputs(1), pts2 \in ConcInputs(2) :
          invocations = <<NewInvocation(pts1), NewInvocation(pts2)>>
    /\ hull = <<>>
    /\ points = <<>>
    /\ andrews_final = NotCalled
    /\ andrews_steps = NotCalled
    /\ quickhull_final = NotCalled
    /\ quickhull_steps = NotCalled
    /\ compute_andrews = NotCalled
    /\ compute_quickhull = NotCalled

\* global hull; hull = []; and the early return for n < 3
QhEnter(t) ==
    LET me == invocations[t]
    IN  /\ me.pc = "start"
        /\ hull' = <<>>
        /\ invocations' =
             [invocations EXCEPT ![t] =
                IF Len(me.points) < 3
                THEN [me EXCEPT !.pc = "done", !.ret = <<Bare(me.points)>>]
                ELSE [me EXCEPT !.pc = "init"]]
        /\ UNCHANGED driverVars

\* min/max scan, hull = [pMin, pMax], first step, partition
QhInitHull(t) ==
    LET me == invocations[t]
        pmin == me.points[ScanMin(me.points, 2, 1)]
        pmax == me.points[ScanMax(me.points, 2, 1)]
    IN  /\ me.pc = "init"
        /\ hull' = <<pmin, pmax>>
        /\ invocations' =
             [invocations EXCEPT ![t] =
                [me EXCEPT !.pc = "recurse",
                           !.steps = <<[hull |-> hull', active |-> hull']>>,
                           !.stack = << Frame(upper_points(me.points, pmin, pmax), pmin, pmax, 1),
                                        Frame(lower_points(me.points, pmin, pmax), pmax, pmin, 1) >>]]
        /\ UNCHANGED driverVars

\* one quickHull body, on whatever the module-level hull is now
QhCall(t) ==
    LET me == invocations[t]
        r == quickHull(me.stack[1], hull, me.steps, TRUE)
    IN  /\ me.pc = "recurse"
        /\ me.stack # <<>>
        /\ hull' = r.hull
        /\ invocations' =
             [invocations EXCEPT ![t] =
                [me EXCEPT !.steps = r.steps,
                           !.stack = r.calls \o Tail(me.stack),
                           !.pc = IF r.calls \o Tail(me.stack) = <<>>
                                  THEN "finish" ELSE "recurse"]]
        /\ UNCHANGED driverVars

\* final ordering, last step, return
QhReturn(t) ==
    LET me == invocations[t]
    IN  /\ me.pc = "finish"
        /\ hull' = FinalOrdering(hull)
        /\ invocations' =
             [invocations EXCEPT ![t] =
                [me EXCEPT !.pc = "done",
                           !.ret = Append(me.steps, [hull |-> hull', active |-> <<>>])]]
        /\ UNCHANGED driverVars

ConcNext ==
    \E t \in Threads : QhEnter(t) \/ QhInitHull(t) \/ QhCall(t) \/ QhReturn(t)

SpecConc == ConcInit /\ [][ConcNext]_vars

(***************************************************************************)
(* One process serving calls one after the other.  invocations[1] is the   *)
(* call in progress; `hull` is the module-level hull, which keeps whatever *)
(* the previous call left in it.  `foreign` remembers whether that         *)
(* leftover was a hull with a vertex that is not among this call's points  *)
(* (it is not program state: no code reads it).  A quickhull_algorithm     *)
(* call runs as its steps: the entry up to the partition, each quickHull   *)
(* body on the module-level hull, the final ordering with the return.  A   *)
(* call ends with pc = "done" (it returned) or pc = "raised" (an exception *)
(* left it); the caller goes on with its next call in both cases.          *)
(***************************************************************************)
MaxSeqLen == 3

\* three points on a horizontal line and one point above the first
SeqPoints == {<<0, 0>>, <<1, 0>>, <<2, 0>>, <<0, 1>>}

SeqInputs == SeqsUpTo(SeqPoints, MaxSeqLen)

\* s[i] is defined (Python raises IndexError otherwise)
InRange(s, i) == i \in 1 .. Len(s)

NewCall(builder, step_mode, pts, leftover) ==
    [builder |-> builder, step_mode |-> step_mode, points |-> pts,
     foreign |-> Len(leftover) >= 3 /\ ~(Range(leftover) \subseteq Range(pts)),
     pc |-> "start", steps |-> <<>>, stack |-> <<>>, ret |-> <<>>]

SeqInit ==
    /\ \E b \in {"andrews", "quickhull"}, m \in BOOLEAN, pts \in SeqInputs :
          invocations = <<NewCall(b, m, pts, <<>>)>>
    /\ hull = <<>>
    /\ points = <<>>
    /\ andrews_final = NotCalled
    /\ andrews_steps = NotCalled
    /\ quickhull_final = NotCalled
    /\ quickhull_steps = NotCalled
    /\ compute_andrews = NotCalled
    /\ compute_quickhull = NotCalled

\* the caller makes its next call once the previous one has returned
SeqNextCall ==
    /\ invocations[1].pc \in {"done", "raised"}
    /\ \E b \in {"andrews", "quickhull"}, m \in BOOLEAN, pts \in SeqInputs :
          invocations' = <<NewCall(b, m, pts, hull)>>
    /\ UNCHANGED hull
    /\ UNCHANGED driverVars

\* andrews_algorithm: no module-level state is read or written
SeqAndrews ==
    LET me == invocations[1]
    IN  /\ me.pc = "start"
        /\ me.builder = "andrews"
        /\ invocations' = <<[me EXCEPT !.pc = "done",
                                       !.ret = andrews_algorithm(me.points, me.step_mode)]>>
        /\ UNCHANGED hull
        /\ UNCHANGED driverVars

\* quickhull_algorithm appending the two endpoints to the hull it finds
SeqQhEnter_ExtendHull ==
    LET me == invocations[1]
        min_x == ScanMin(me.points, 2, 1)
        max_x == ScanMax(me.points, 2, 1)
        pmin == me.points[min_x]
        pmax == me.points[max_x]
    IN  /\ me.pc = "start"
        /\ me.builder = "quickhull"
        /\ IF Len(me.points) < 3
           THEN /\ hull' = hull
                /\ invocations' =
                     <<[me EXCEPT !.pc = "done",
                                  !.ret = IF me.step_mode THEN <<Bare(me.points)>>
                                          ELSE me.points]>>
           ELSE IF ~InRange(me.points, min_x) \/ ~InRange(me.points, max_x)
           THEN /\ hull' = hull
                /\ invocations' = <<[me EXCEPT !.pc = "raised"]>>
           ELSE /\ hull' = hull \o <<pmin, pmax>>
                /\ invocations' =
                     <<[me EXCEPT !.pc = "recurse",
                                  !.steps = IF me.step_mode
                                            THEN <<[hull |-> hull', active |-> hull']>>
                                            ELSE <<>>,
                                  !.stack = << Frame(upper_points(me.points, pmin, pmax),
                                                     pmin, pmax, 1),
                                               Frame(lower_points(me.points, pmin, pmax),
                                                     pmax, pmin, 1) >>]>>
        /\ UNCHANGED driverVars

\* quickhull_algorithm without the early return for n < 3
SeqQhEnter_NoThreshold ==
    LET me == invocations[1]
        min_x == ScanMin(me.points, 2, 1)
        max_x == ScanMax(me.points, 2, 1)
        pmin == me.points[min_x]
        pmax == me.points[max_x]
    IN  /\ me.pc = "start"
        /\ me.builder = "quickhull"
        /\ IF ~InRange(me.points, min_x) \/ ~InRange(me.points, max_x)
           THEN /\ hull' = <<>>
                /\ invocations' = <<[me EXCEPT !.pc = "raised"]>>
           ELSE /\ hull' = <<pmin, pmax>>
                /\ invocations' =
                     <<[me EXCEPT !.pc = "recurse",
                                  !.steps = IF me.step_mode
                                            THEN <<[hull |-> hull', active |-> hull']>>
                                            ELSE <<>>,
                                  !.stack = << Frame(upper_points(me.points, pmin, pmax),
                                                     pmin, pmax, 1),
                                               Frame(lower_points(me.points, pmin, pmax),
                                                     pmax, pmin, 1) >>]>>
        /\ UNCHANGED driverVars

\* quickhull_algorithm up to its two quickHull calls: hull = [], the early
\* return, the min/max scan, hull = [pMin, pMax] (points[min_x] raises
\* IndexError outside range(n)), the first step, the partition
SeqQhEnter ==
    LET me == invocations[1]
        min_x == ScanMin(me.points, 2, 1)
        max_x == ScanMax(me.points, 2, 1)
        pmin == me.points[min_x]
        pmax == me.points[max_x]
    IN  /\ me.pc = "start"
        /\ me.builder = "quickhull"
        /\ IF Len(me.points) < 3
           THEN /\ hull' = <<>>
                /\ invocations' =
                     <<[me EXCEPT !.pc = "done",
                                  !.ret = IF me.step_mode THEN <<Bare(me.points)>>
                                          ELSE me.points]>>
           ELSE IF ~InRange(me.points, min_x) \/ ~InRange(me.points, max_x)
           THEN /\ hull' = <<>>
                /\ invocations' = <<[me EXCEPT !.pc = "raised"]>>
           ELSE /\ hull' = <<pmin, pmax>>
                /\ invocations' =
                     <<[me EXCEPT !.pc = "recurse",
                                  !.steps = IF me.step_mode
                                            THEN <<[hull |-> hull', active |-> hull']>>
                                            ELSE <<>>,
                                  !.stack = << Frame(upper_points(me.points, pmin, pmax),
                                                     pmin, pmax, 1),
                                               Frame(lower_points(me.points, pmin, pmax),
                                                     pmax, pmin, 1) >>]>>
        /\ UNCHANGED driverVars

\* one quickHull body; a[i] for i in range(n) raises IndexError when n > len(a)
SeqQhCall ==
    LET me == invocations[1]
        r == quickHull(me.stack[1], hull, me.steps, me.step_mode)
    IN  /\ me.pc = "recurse"
        /\ me.stack # <<>>
        /\ IF me.stack[1].n > Len(me.stack[1].a)
           THEN /\ hull' = hull
                /\ invocations' = <<[me EXCEPT !.pc = "raised"]>>
           ELSE /\ hull' = r.hull
                /\ invocations' =
                     <<[me EXCEPT !.steps = r.steps,
                                  !.stack = r.calls \o Tail(me.stack)]>>
        /\ UNCHANGED driverVars

\* final ordering, last step, return
SeqQhReturn ==
    LET me == invocations[1]
    IN  /\ me.pc = "recurse"
        /\ me.stack = <<>>
        /\ hull' = FinalOrdering(hull)
        /\ invocations' =
             <<[me EXCEPT !.pc = "done",
                          !.ret = IF me.step_mode
                                  THEN Append(me.steps, [hull |-> hull', active |-> <<>>])
                                  ELSE hull']>>
        /\ UNCHANGED driverVars

SeqNext ==
    \/ SeqNextCall
    \/ SeqAndrews
    \/ SeqQhEnter
    \/ SeqQhCall
    \/ SeqQhReturn

SpecSeq == SeqInit /\ [][SeqNext]_vars

(***************************************************************************)
(* One call of adapt_for_visualization.  invocations[1] is the call: the   *)
(* raw_steps list it is given (raw_at_call keeps its value at the call),   *)
(* the algorithm argument, and what the call returned or raised.  The raw  *)
(* trace is a list of bare hull snapshots, or the trace a builder returns. *)
(***************************************************************************)
MaxRawLen == 3

MaxSnapLen == 2

AdaptPoints == {<<0, 0>>, <<1, 0>>}

\* traces of up to MaxRawLen bare snapshots of up to MaxSnapLen points
BareTraces ==
    SeqsUpTo({Bare(h) : h \in SeqsUpTo(AdaptPoints, MaxSnapLen)}, MaxRawLen)

NewAdaptCall(raw_steps, algorithm) ==
    [raw_steps |-> raw_steps, raw_at_call |-> raw_steps, algorithm |-> algorithm,
     pc |-> "start", ret |-> Value(<<>>)]

AdaptInit ==
    /\ \E algorithm \in {"andrews", "quickhull"} :
          \/ \E raw \in BareTraces :
                invocations = <<NewAdaptCall(raw, algorithm)>>
          \/ \E pts \in SeqInputs :
                invocations = <<NewAdaptCall(quickhull_algorithm(pts, TRUE).ret, algorithm)>>
          \/ \E pts \in SeqInputs :
                invocations = <<NewAdaptCall(andrews_algorithm(pts, TRUE), algorithm)>>
    /\ hull = <<>>
    /\ points = <<>>
    /\ andrews_final = NotCalled
    /\ andrews_steps = NotCalled
    /\ quickhull_final = NotCalled
    /\ quickhull_steps = NotCalled
    /\ compute_andrews = NotCalled
    /\ compute_quickhull = NotCalled

\* the call; adapt_for_visualization assigns to no element of raw_steps
AdaptCall ==
    LET me == invocations[1]
    IN  /\ me.pc = "start"
        /\ invocations' =
             <<[me EXCEPT !.pc = "done",
                          !.ret = adapt_for_visualization(me.raw_steps, <<>>, me.algorithm)]>>
        /\ UNCHANGED hull
        /\ UNCHANGED driverVars

AdaptNext == AdaptCall

SpecAdapt == AdaptInit /\ [][AdaptNext]_vars

(***************************************************************************)
(* Predicates on hulls used by the properties.                             *)
(***************************************************************************)
\* the vertex cyclically after position i
Succ(h, i) == h[(i % Len(h)) + 1]

Min(a, b) == IF a < b THEN a ELSE b

Max(a, b) == IF a > b THEN a ELSE b

OnSegment(a, b, p) ==
    /\ orientation(a, b, p) = 0
    /\ Min(a[1], b[1]) <= p[1] /\ p[1] <= Max(a[1], b[1])
    /\ Min(a[2], b[2]) <= p[2] /\ p[2] <= Max(a[2], b[2])

\* every point of pts is inside or on the boundary of the hull h
Encloses(h, pts) ==
    /\ Len(h) >= 3 =>
         \A p \in pts : \A i \in 1 .. Len(h) : orientation(h[i], Succ(h, i), p) >= 0
    /\ Len(h) = 2 =>
         \A p \in pts : OnSegment(h[1], h[2], p)

\* no three cyclically consecutive vertices of h are collinear
NoCollinearTriple(h) ==
    Len(h) >= 3 =>
      \A i \in 1 .. Len(h) : orientation(h[i], Succ(h, i), Succ(h, (i % Len(h)) + 1)) # 0

\* the hull a trace entry carries (a bare list entry is its own hull)
StepHull(entry) == IF IsDict(entry) THEN entry.hull ELSE entry.snapshot

(***************************************************************************)
(* Properties.                                                             *)
(***************************************************************************)

\* C1: every input point lies inside or on the boundary of the final hull
\* returned by quickhull_algorithm (on the segment when it has 2 vertices).
C1_QuickhullEncloses ==
    quickhull_final.called => Encloses(quickhull_final.value, Range(points))

\* C2: every input point lies inside or on the boundary of the final hull
\* returned by andrews_algorithm (on the segment when it has 2 vertices).
C2_AndrewsEncloses ==
    andrews_final.called => Encloses(andrews_final.value, Range(points))

\* C2 witness: a monotone-chain hull of 3 or more vertices that leaves out an
\* input point lying strictly inside it.
C2_Witness ==
    /\ andrews_final.called
    /\ Len(andrews_final.value) >= 3
    /\ \E p \in Range(points) :
         \A i \in 1 .. Len(andrews_final.value) :
            orientation(andrews_final.value[i], Succ(andrews_final.value, i), p) > 0

\* C3: andrews_algorithm and quickhull_algorithm return final hulls with the
\* same set of vertices.
C3_SameVertexSet ==
    (andrews_final.called /\ quickhull_final.called)
      => Range(andrews_final.value) = Range(quickhull_final.value)

\* C4: the final hull of quickhull_algorithm has no three cyclically
\* consecutive collinear vertices when it has 3 or more vertices.
C4_QuickhullNoCollinear ==
    quickhull_final.called => NoCollinearTriple(quickhull_final.value)

C5_Witness ==
    /\ andrews_final.called
    /\ Len(andrews_final.value) >= 3
    /\ \E i, j, k \in 1 .. Len(points) :
         /\ points[i] # points[j] /\ points[j] # points[k] /\ points[i] # points[k]
         /\ orientation(points[i], points[j], points[k]) = 0
         /\ ~Contains(andrews_final.value, points[j])

\* C6: every vertex of the final hull, and of the hull of every trace Step,
\* of both builders is one of the input points.
C6_VerticesFromInput ==
    /\ andrews_final.called => Range(andrews_final.value) \subseteq Range(points)
    /\ quickhull_final.called => Range(quickhull_final.value) \subseteq Range(points)
    /\ andrews_steps.called =>
         \A i \in 1 .. Len(andrews_steps.value) :
            Range(StepHull(andrews_steps.value[i])) \subseteq Range(points)
    /\ quickhull_steps.called =>
         \A i \in 1 .. Len(quickhull_steps.value) :
            Range(StepHull(quickhull_steps.value[i])) \subseteq Range(points)

\* C6 witness: both traces returned, the divide-and-conquer one with an
\* insertion Step, for an input that does not use every grid point.
C6_Witness ==
    /\ andrews_steps.called /\ quickhull_steps.called
    /\ Len(andrews_steps.value) > 1
    /\ \E i \in 1 .. Len(quickhull_steps.value) :
         /\ IsDict(quickhull_steps.value[i])
         /\ Len(quickhull_steps.value[i].active) = 1
    /\ Range(points) # Point

\* C7: in trace mode the trace is non-empty and the hull of its last Step is
\* exactly the hull returned in final mode, for both builders.
C7_TraceSoundness ==
    /\ (andrews_final.called /\ andrews_steps.called) =>
         /\ Len(andrews_steps.value) >= 1
         /\ StepHull(Last(andrews_steps.value)) = andrews_final.value
    /\ (quickhull_final.called /\ quickhull_steps.called) =>
         /\ Len(quickhull_steps.value) >= 1
         /\ StepHull(Last(quickhull_steps.value)) = quickhull_final.value

\* C7 witness: both builders ran in both modes on an input whose working hull
\* the final ordering rearranges.
C7_Witness ==
    /\ andrews_final.called /\ andrews_steps.called
    /\ quickhull_final.called /\ quickhull_steps.called
    /\ Len(quickhull_steps.value) >= 2
    /\ StepHull(quickhull_steps.value[Len(quickhull_steps.value) - 1])
         # StepHull(Last(quickhull_steps.value))

LexLeq(p, q) == p[1] < q[1] \/ (p[1] = q[1] /\ p[2] <= q[2])

\* C8 as stated: for an input of exactly two points each builder's final hull
\* is those two points and its trace has exactly one Step.
C8_TwoPointsOneStep ==
    Len(points) = 2 =>
      /\ andrews_final.called =>
           Len(andrews_final.value) = 2 /\ Range(andrews_final.value) = Range(points)
      /\ quickhull_final.called => quickhull_final.value = points
      /\ andrews_steps.called => Len(andrews_steps.value) = 1
      /\ quickhull_steps.called => Len(quickhull_steps.value) = 1

\* C8 amended: for an input of exactly two points the final hull is those two
\* points (input order for quickhull_algorithm, sorted by x then y for
\* andrews_algorithm); the quickhull trace has exactly one Step, the bare input;
\* the andrews trace has exactly five Steps: two pushes on the lower chain, two
\* pushes on the upper chain, and the complete Step, with no pop.
C8_TwoPoints ==
    Len(points) = 2 =>
      /\ andrews_final.called =>
           /\ andrews_final.value \in {points, Reverse(points)}
           /\ LexLeq(andrews_final.value[1], andrews_final.value[2])
      /\ quickhull_final.called => quickhull_final.value = points
      /\ quickhull_steps.called => quickhull_steps.value = <<Bare(points)>>
      /\ andrews_steps.called =>
           /\ Len(andrews_steps.value) = 5
           /\ [i \in 1 .. 5 |-> andrews_steps.value[i].phase]
                = <<"lower_hull", "lower_hull", "upper_hull", "upper_hull", "complete">>
           /\ [i \in 1 .. 4 |-> Len(andrews_steps.value[i].hull)] = <<1, 2, 1, 2>>
           /\ \A i \in 1 .. 4 :
                andrews_steps.value[i].active = <<Last(andrews_steps.value[i].hull)>>
           /\ andrews_steps.value[5].hull = andrews_final.value
           /\ andrews_steps.value[5].active = <<>>

\* C8 witness: both builders ran in both modes on two distinct points given
\* in descending order.
C8_Witness ==
    /\ Len(points) = 2
    /\ points[1] # points[2] /\ LexLeq(points[2], points[1])
    /\ andrews_final.called /\ andrews_steps.called
    /\ quickhull_final.called /\ quickhull_steps.called

\* a Step of the uniform schema: hull and active are lists of Points
WellFormedStep(step) ==
    /\ ~IsDict(step.hull)
    /\ Range(step.hull.snapshot) \subseteq Point
    /\ Range(step.active) \subseteq Point

\* C9: for 3 or more points, compute_algorithm with algorithm "andrews"
\* (andrews_algorithm in trace mode, then adapt_for_visualization) raises no
\* error and returns one well-formed Step per builder step, the last one
\* carrying the final hull.
C9_AndrewsPipeline ==
    (Len(points) >= 3 /\ compute_andrews.called) =>
      /\ compute_andrews.value.status = 200
      /\ Len(compute_andrews.value.steps) = Len(andrews_steps.value)
      /\ \A i \in 1 .. Len(compute_andrews.value.steps) :
           WellFormedStep(compute_andrews.value.steps[i])
      /\ Last(compute_andrews.value.steps).hull.snapshot = andrews_final.value

\* C10: two interleaved quickhull_algorithm invocations each return the trace
\* (and so the final hull, its last Step) they return when run alone, and no
\* hull snapshot of one holds a point that only the other was given.
C10_Isolation ==
    \A t \in DOMAIN invocations :
       /\ invocations[t].pc = "done" =>
            invocations[t].ret = quickhull_algorithm(invocations[t].points, TRUE).ret
       /\ \A i \in 1 .. Len(invocations[t].steps) :
            Range(StepHull(invocations[t].steps[i])) \subseteq Range(invocations[t].points)

\* The stepwise run agrees with quickhull_algorithm when the other thread
\* has not entered.
SoloAgrees ==
    \A t \in DOMAIN invocations :
       (invocations[t].pc = "done" /\ \A u \in DOMAIN invocations \ {t} : invocations[u].pc = "start") =>
         invocations[t].ret = quickhull_algorithm(invocations[t].points, TRUE).ret

\* C11: a call returns what the same call returns as the first call of a fresh
\* process (module-level hull = []), whatever calls ran before it: the returned
\* hull or trace is a function of the builder, the mode and the input alone, so
\* repeating a call on an identical input returns an identical result.
C11_Determinism ==
    invocations[1].pc = "done" =>
      invocations[1].ret =
        IF invocations[1].builder = "andrews"
        THEN andrews_algorithm(invocations[1].points, invocations[1].step_mode)
        ELSE quickhull_algorithm(invocations[1].points, invocations[1].step_mode).ret

\* C11 witness: a quickhull_algorithm call on 3 or more points has returned,
\* entered while the module-level hull held the hull of another input (a
\* vertex that is not among this call's points).
C11_Witness ==
    /\ invocations[1].pc = "done"
    /\ invocations[1].builder = "quickhull"
    /\ Len(invocations[1].points) >= 3
    /\ invocations[1].foreign

\* the response of compute_algorithm to a request of fewer than 3 points is a
\* single-Step trace whose hull is the input (active empty for the empty input)
SingleStepOfInput(response, pts) ==
    /\ response.status = 200
    /\ Len(response.steps) = 1
    /\ response.steps[1].hull = pts
    /\ pts = <<>> => response.steps[1].active = <<>>

\* C12: compute_algorithm on fewer than 3 points (0, 1 or 2), for either
\* algorithm, is not an error and returns a single-Step trace whose hull is the
\* input; for the empty input that Step has an empty hull and an empty active.
C12_SmallInputNoError ==
    Len(points) < 3 =>
      /\ compute_andrews.called => SingleStepOfInput(compute_andrews.value, points)
      /\ compute_quickhull.called => SingleStepOfInput(compute_quickhull.value, points)

NoConsecutiveDuplicates(h) ==
    Len(h) >= 2 => \A i \in 1 .. Len(h) : h[i] # Succ(h, i)

\* C14: the final hull returned by either builder has no two cyclically
\* consecutive equal vertices, for every input (duplicates, all points
\* identical, all points on one x included).
C14_NoConsecutiveDuplicates ==
    /\ andrews_final.called => NoConsecutiveDuplicates(andrews_final.value)
    /\ quickhull_final.called => NoConsecutiveDuplicates(quickhull_final.value)

\* every cyclically consecutive triple of h makes a strict left turn
StrictlyCounterclockwise(h) ==
    \A i \in 1 .. Len(h) : orientation(h[i], Succ(h, i), Succ(h, (i % Len(h)) + 1)) > 0

C15_Witness ==
    /\ andrews_final.called
    /\ Len(andrews_final.value) = 4
    /\ andrews_final.value[1] # points[1]

\* the number of positions of s holding e
Count(s, e) == Cardinality({i \in 1 .. Len(s) : s[i] = e})

\* f holds the elements of w, each as many times
IsPermutation(f, w) ==
    /\ Len(f) = Len(w)
    /\ \A e \in Range(f) \cup Range(w) : Count(f, e) = Count(w, e)

\* the working hull at the end of the recursion: the hull of the last Step
\* recorded before the terminal one
WorkingHull(steps) == StepHull(steps[Len(steps) - 1])

\* C16: when the working hull of quickhull_algorithm ends with more than 2
\* vertices, the final hull is a permutation of it (no vertex added or
\* dropped), in nondecreasing angle around the vertices' centroid, and every
\* cyclically consecutive triple of the final hull has orientation >= 0.
C16_FinalOrdering ==
    (quickhull_steps.called /\ Len(points) >= 3) =>
      LET w == WorkingHull(quickhull_steps.value)
          f == StepHull(Last(quickhull_steps.value))
      IN  Len(w) > 2 =>
            /\ IsPermutation(f, w)
            /\ \A i, j \in 1 .. Len(f) :
                 i < j => ~AngleLess(AngleVec(w, f[j]), AngleVec(w, f[i]))
            /\ \A i \in 1 .. Len(f) :
                 orientation(f[i], Succ(f, i), Succ(f, (i % Len(f)) + 1)) >= 0

\* C16 witness: a working hull of 4 or more vertices that the final ordering
\* rearranges.
C16_Witness ==
    /\ quickhull_steps.called
    /\ Len(points) >= 3
    /\ Len(WorkingHull(quickhull_steps.value)) >= 4
    /\ WorkingHull(quickhull_steps.value) # StepHull(Last(quickhull_steps.value))

\* C17: below the degenerate threshold (0 or 1 points for andrews_algorithm,
\* fewer than 3 points for quickhull_algorithm) the trace is exactly one Step
\* whose hull is the input sequence in input order; it is the terminal Step,
\* not a push, a pop or a recursion Step.
C17_DegenerateTrace ==
    /\ (andrews_steps.called /\ Len(points) <= 1) =>
         /\ Len(andrews_steps.value) = 1
         /\ andrews_steps.value[1].hull = points
         /\ andrews_steps.value[1].phase = "complete"
    /\ (quickhull_steps.called /\ Len(points) < 3) =>
         /\ Len(quickhull_steps.value) = 1
         /\ ~IsDict(quickhull_steps.value[1])
         /\ quickhull_steps.value[1].snapshot = points

\* C17 witness: both traces returned for two distinct points (below the
\* threshold of quickhull_algorithm only) or for a single point (below both).
C17_Witness ==
    /\ andrews_steps.called /\ quickhull_steps.called
    /\ \/ Len(points) = 1
       \/ Len(points) = 2 /\ points[1] # points[2]

\* all points of pts lie on one line
AllCollinear(pts) ==
    \A i, j, k \in 1 .. Len(pts) : orientation(pts[i], pts[j], pts[k]) = 0

LexMin(pts) == CHOOSE p \in Range(pts) : \A q \in Range(pts) : LexLeq(p, q)

LexMax(pts) == CHOOSE p \in Range(pts) : \A q \in Range(pts) : LexLeq(q, p)

\* the chain as the last Step of a phase shows it
FinalChain(steps, phase) ==
    LET last == CHOOSE i \in 1 .. Len(steps) :
                   /\ steps[i].phase = phase
                   /\ \A j \in i + 1 .. Len(steps) : steps[j].phase # phase
    IN  steps[last].hull

IsBareTrace(raw_steps) == \A i \in 1 .. Len(raw_steps) : ~IsDict(raw_steps[i])

\* the set of points in exactly one of snapshot i and snapshot i - 1 (the
\* snapshot before the first one is empty)
SymmetricDifference(raw_steps, i) ==
    LET cur == Range(raw_steps[i].snapshot)
        prev == IF i = 1 THEN {} ELSE Range(raw_steps[i - 1].snapshot)
    IN  (cur \ prev) \cup (prev \ cur)

\* C19: for a raw trace of bare hull snapshots the adapter ("andrews" branch)
\* returns, and `active` of Step i holds exactly the points of the symmetric
\* difference of snapshots i and i - 1, each once; when that difference is empty
\* and snapshot i is not, `active` is [last point of snapshot i]; so every Step
\* with a non-empty hull has a non-empty active.
C19_ActiveIsSymmetricDifference ==
    (/\ invocations[1].pc = "done"
     /\ invocations[1].algorithm = "andrews"
     /\ IsBareTrace(invocations[1].raw_at_call)) =>
      /\ ~invocations[1].ret.raised
      /\ Len(invocations[1].ret.value) = Len(invocations[1].raw_at_call)
      /\ \A i \in 1 .. Len(invocations[1].raw_at_call) :
           LET snapshot == invocations[1].raw_at_call[i].snapshot
               sd == SymmetricDifference(invocations[1].raw_at_call, i)
               active == invocations[1].ret.value[i].active
           IN  /\ (sd # {} \/ snapshot = <<>>) =>
                    Range(active) = sd /\ Len(active) = Cardinality(sd)
               /\ (sd = {} /\ snapshot # <<>>) => active = <<Last(snapshot)>>
               /\ snapshot # <<>> => active # <<>>

\* C19 witness: a returned call on three bare snapshots: the second repeats
\* the points of the first (fallback to its last point), the third drops one.
C19_Witness ==
    /\ invocations[1].pc = "done"
    /\ invocations[1].algorithm = "andrews"
    /\ IsBareTrace(invocations[1].raw_at_call)
    /\ Len(invocations[1].raw_at_call) = 3
    /\ Len(invocations[1].raw_at_call[1].snapshot) = 2
    /\ SymmetricDifference(invocations[1].raw_at_call, 2) = {}
    /\ Len(invocations[1].raw_at_call[3].snapshot) = 1

\* output Step `step` carries the hull of raw entry `entry`, vertex order kept.
\* A dict entry passed through by the "quickhull" branch has a list under
\* `hull`; in every other case the output's `hull` is the raw entry itself,
\* which is a hull only when the entry is a bare list.
CarriesHullOf(step, entry, algorithm) ==
    IF algorithm = "quickhull" /\ IsDict(entry)
    THEN step.hull = entry.hull
    ELSE ~IsDict(step.hull) /\ step.hull.snapshot = StepHull(entry)

\* C20: adapt_for_visualization returns one Step per raw entry, in order; the
\* hull of Step i is the hull of raw entry i with the same vertex order; with
\* algorithm = "quickhull" a dict entry is returned unchanged with all its
\* keys; raw_steps and its entries are as they were at the call.
C20_ReadsAndRepackages ==
    invocations[1].pc = "done" =>
      /\ invocations[1].raw_steps = invocations[1].raw_at_call
      /\ ~invocations[1].ret.raised
      /\ Len(invocations[1].ret.value) = Len(invocations[1].raw_at_call)
      /\ \A i \in 1 .. Len(invocations[1].raw_at_call) :
           /\ CarriesHullOf(invocations[1].ret.value[i], invocations[1].raw_at_call[i],
                            invocations[1].algorithm)
           /\ (invocations[1].algorithm = "quickhull"
                 /\ IsDict(invocations[1].raw_at_call[i])) =>
                invocations[1].ret.value[i] = invocations[1].raw_at_call[i]

PhaseRank(phase) ==
    IF phase = "lower_hull" THEN 1 ELSE IF phase = "upper_hull" THEN 2 ELSE 3

\* the chain before Step i: the hull of the Step before it in the same phase,
\* or the empty chain at the start of a scan
ChainBefore(steps, i) ==
    IF i = 1 \/ steps[i - 1].phase # steps[i].phase THEN <<>> ELSE steps[i - 1].hull

\* the points pushed during a phase, in the order of their Steps
RECURSIVE PushedIn(_, _, _)
PushedIn(steps, phase, i) ==
    IF i > Len(steps) THEN <<>>
    ELSE IF steps[i].phase = phase /\ steps[i].description[1] = "Added point"
         THEN <<steps[i].active[1]>> \o PushedIn(steps, phase, i + 1)
         ELSE PushedIn(steps, phase, i + 1)

\* C21: in the andrews_algorithm trace for 2 or more points the Steps are
\* lower_hull Steps, then upper_hull Steps, then exactly one complete Step with
\* empty active; every Step before the last is a pop (chain right after the
\* pop, active = [popped point]) or a push (chain right after the push,
\* active = [pushed point]) of the chain the Step before it left, every point
\* is pushed once per scan in scan order, and the k-th Step has step = k
\* (0-based).
C21_AndrewsTraceOrder ==
    (andrews_steps.called /\ Len(points) >= 2) =>
      LET steps == andrews_steps.value
          n == Len(steps)
      IN  /\ \A k \in 1 .. n : steps[k].step = k - 1
          /\ \A k \in 1 .. n - 1 : PhaseRank(steps[k].phase) <= PhaseRank(steps[k + 1].phase)
          /\ steps[n].phase = "complete" /\ steps[n].active = <<>>
          /\ \A k \in 1 .. n - 1 : steps[k].phase \in {"lower_hull", "upper_hull"}
          /\ \A k \in 1 .. n - 1 :
               LET before == ChainBefore(steps, k)
               IN  \/ /\ steps[k].description[1] = "Added point"
                      /\ steps[k].hull = Append(before, steps[k].active[1])
                      /\ Len(steps[k].active) = 1
                   \/ /\ steps[k].description[1] = "Removed point"
                      /\ before # <<>>
                      /\ steps[k].hull = Front(before)
                      /\ steps[k].active = <<Last(before)>>
          /\ PushedIn(steps, "lower_hull", 1) = merge_sort(points)
          /\ PushedIn(steps, "upper_hull", 1) = Reverse(merge_sort(points))

\* C21 witness: a trace with a pop Step in the lower scan and a pop Step in
\* the upper scan.
C21_Witness ==
    /\ andrews_steps.called
    /\ Len(points) >= 3
    /\ \E i, j \in 1 .. Len(andrews_steps.value) :
         /\ andrews_steps.value[i].phase = "lower_hull"
         /\ andrews_steps.value[i].description[1] = "Removed point"
         /\ andrews_steps.value[j].phase = "upper_hull"
         /\ andrews_steps.value[j].description[1] = "Removed point"

\* the points of a scan in scan order: pts for the lower scan, reversed(pts) for the upper
ScanOrder(pts_in, phase) ==
    IF phase = "lower_hull" THEN merge_sort(pts_in) ELSE Reverse(merge_sort(pts_in))

StrictLeftTurns(chain) ==
    \A i \in 1 .. Len(chain) - 2 : orientation(chain[i], chain[i + 1], chain[i + 2]) > 0

\* C22: in both scans of andrews_algorithm, after every push every three
\* consecutive chain vertices make a strict left turn and the last vertex is
\* the point just scanned; the first vertex of the chain is the first point of
\* the scan order after every push and every pop (it is never popped); at the
\* concatenation the last vertex of each chain is the first vertex of the other.
C22_ChainInvariants ==
    (andrews_steps.called /\ Len(points) >= 2) =>
      LET steps == andrews_steps.value
          lower == FinalChain(steps, "lower_hull")
          upper == FinalChain(steps, "upper_hull")
      IN  /\ \A k \in 1 .. Len(steps) - 1 :
                /\ steps[k].hull # <<>>
                /\ steps[k].hull[1] = ScanOrder(points, steps[k].phase)[1]
                /\ steps[k].description[1] = "Added point" =>
                      /\ StrictLeftTurns(steps[k].hull)
                      /\ Last(steps[k].hull) = ScanOrder(points, steps[k].phase)[steps[k].description[4]]
          /\ Last(lower) = upper[1]
          /\ Last(upper) = lower[1]

\* C22 witness: a push Step whose chain has three or more vertices, after a pop
\* in the same trace.
C22_Witness ==
    /\ andrews_steps.called
    /\ Len(points) >= 2
    /\ \E i, j \in 1 .. Len(andrews_steps.value) :
         /\ i < j
         /\ andrews_steps.value[i].description[1] = "Removed point"
         /\ andrews_steps.value[j].description[1] = "Added point"
         /\ Len(andrews_steps.value[j].hull) >= 3

(***************************************************************************)
(* One quickhull_algorithm call followed one quickHull body at a time: the *)
(* state between two steps shows the working hull and the pending calls at *)
(* the entry of the next quickHull call.                                   *)
(***************************************************************************)
MaxRecLen == 5

RecInputs == SeqsUpTo(Point, MaxRecLen)

RecInit ==
    /\ \E m \in BOOLEAN, pts \in RecInputs :
          invocations = <<NewCall("quickhull", m, pts, <<>>)>>
    /\ hull = <<>>
    /\ points = <<>>
    /\ andrews_final = NotCalled
    /\ andrews_steps = NotCalled
    /\ quickhull_final = NotCalled
    /\ quickhull_steps = NotCalled
    /\ compute_andrews = NotCalled
    /\ compute_quickhull = NotCalled

RecNext ==
    \/ SeqQhEnter
    \/ SeqQhCall
    \/ SeqQhReturn

SpecRec == RecInit /\ [][RecNext]_vars

\* a quickHull call is about to run its body
AtEntry == invocations[1].pc = "recurse" /\ invocations[1].stack # <<>>

\* the frame of the call about to run
Entered == invocations[1].stack[1]

\* position of the farthest point in Entered.a, 0 if there is none
EnteredInd ==
    FindFarthest(Entered.a, Entered.n, Entered.p1, Entered.p2, Entered.side, 1, 0, 0)

\* p is at some position of h and q at the cyclically next one
CyclicallyBefore(h, p, q) ==
    \E i \in 1 .. Len(h) : h[i] = p /\ Succ(h, i) = q

\* h without the element at position i
RemoveAt(h, i) == SubSeq(h, 1, i - 1) \o SubSeq(h, i + 1, Len(h))

\* C23: at the entry of every quickHull call p1 and p2 are in the working hull
\* and p1 is cyclically immediately before p2; the call either leaves the hull
\* as it is (no endpoint is appended) or inserts the farthest point at the
\* position p2 had, so that it sits immediately before p2, and in trace mode
\* the Step of the insertion has active = [inserted point].
C23_EntryAndInsertion ==
    [][AtEntry =>
         /\ Contains(hull, Entered.p1)
         /\ Contains(hull, Entered.p2)
         /\ CyclicallyBefore(hull, Entered.p1, Entered.p2)
         /\ EnteredInd = 0 => hull' = hull
         /\ EnteredInd # 0 =>
              LET farthest == Entered.a[EnteredInd]
                  idx == IndexOf(hull, Entered.p2)
              IN  /\ Len(hull') = Len(hull) + 1
                  /\ hull'[idx] = farthest
                  /\ hull'[idx + 1] = Entered.p2
                  /\ RemoveAt(hull', idx) = hull
                  /\ invocations[1].step_mode =>
                       /\ Last(invocations'[1].steps).active = <<farthest>>
                       /\ Last(invocations'[1].steps).hull = hull'
      ]_vars

\* C23 witness: a call with p2 = pMin at the front of the hull is entered
\* with a candidate, after an earlier insertion.
C23_Witness ==
    /\ AtEntry
    /\ EnteredInd # 0
    /\ Len(hull) >= 3
    /\ hull[1] = Entered.p2

IsSubdivision(e) == "dividing_line" \in DOMAIN e

\* C24: in trace mode a quickHull call emits a subdivision Step exactly when
\* its candidate list is non-empty, as the first Step of the call and so
\* before its insertion; the Step carries the working hull as it was at
\* entry, empty active, dividing_line = [p1, p2] and test_points = the
\* candidates on side `side`, in candidate order.  A call with no candidate
\* emits its one Step without dividing_line.
C24_SubdivisionStep ==
    [][(AtEntry /\ invocations[1].step_mode) =>
         LET before == invocations[1].steps
             after == invocations'[1].steps
             k == Len(before)
         IN  /\ SubSeq(after, 1, k) = before
             /\ Len(Entered.a) > 0 =>
                  /\ Len(after) = k + 2
                  /\ IsSubdivision(after[k + 1])
                  /\ after[k + 1].hull = hull
                  /\ after[k + 1].active = <<>>
                  /\ after[k + 1].dividing_line = <<Entered.p1, Entered.p2>>
                  /\ after[k + 1].test_points =
                       SelectSeq(Entered.a,
                                 LAMBDA q : findSide(Entered.p1, Entered.p2, q) = Entered.side)
                  /\ ~IsSubdivision(after[k + 2])
             /\ Len(Entered.a) = 0 =>
                  /\ Len(after) = k + 1
                  /\ ~IsSubdivision(after[k + 1])
      ]_vars

\* C24 witness: a subdivision Step with two or more test points, followed by
\* the insertion Step of the same call.
C24_Witness ==
    /\ invocations[1].step_mode
    /\ \E i \in 1 .. Len(invocations[1].steps) - 1 :
         /\ IsSubdivision(invocations[1].steps[i])
         /\ Len(invocations[1].steps[i].test_points) >= 2
         /\ invocations[1].steps[i + 1].active # <<>>

\* positions of the candidates of frame f on side f.side at non-zero distance
OnSide(f) ==
    {i \in 1 .. Len(f.a) : /\ findSide(f.p1, f.p2, f.a[i]) = f.side
                           /\ lineDist(f.p1, f.p2, f.a[i]) # 0}

\* the first position of OnSide(f) at maximal distance from p1 -> p2
FirstFarthest(f) ==
    CHOOSE i \in OnSide(f) :
       \A j \in OnSide(f) :
          /\ lineDist(f.p1, f.p2, f.a[j]) <= lineDist(f.p1, f.p2, f.a[i])
          /\ j < i => lineDist(f.p1, f.p2, f.a[j]) < lineDist(f.p1, f.p2, f.a[i])

\* C25: a quickHull call inserts the candidate on side `side` with maximal
\* distance from p1 -> p2, the first in the candidate list among ties, and
\* recurses on (p1, it) and (it, p2); when no candidate is on that side at
\* non-zero distance it leaves the hull as it is, makes no call and, in trace
\* mode, ends with one terminal Step (the hull, empty active).
C25_FarthestSelection ==
    [][AtEntry =>
         LET me == invocations[1]
             after == invocations'[1]
         IN  /\ OnSide(Entered) # {} =>
                  LET chosen == Entered.a[FirstFarthest(Entered)]
                  IN  /\ hull' = InsertAt(hull, IndexOf(hull, Entered.p2), chosen)
                      /\ Len(after.stack) = Len(me.stack) + 1
                      /\ after.stack[1].p1 = Entered.p1 /\ after.stack[1].p2 = chosen
                      /\ after.stack[2].p1 = chosen /\ after.stack[2].p2 = Entered.p2
                      /\ me.step_mode => Last(after.steps).active = <<chosen>>
             /\ OnSide(Entered) = {} =>
                  /\ hull' = hull
                  /\ after.stack = Tail(me.stack)
                  /\ me.step_mode =>
                       /\ Last(after.steps) = [hull |-> hull, active |-> <<>>]
                       /\ Len(SelectSeq(SubSeq(after.steps, Len(me.steps) + 1, Len(after.steps)),
                                        LAMBDA e : ~IsSubdivision(e))) = 1
      ]_vars

\* C25 witness: an insertion Step whose point was tested together with a
\* different, later candidate at the same distance from the dividing line.
C25_Witness ==
    /\ invocations[1].step_mode
    /\ \E k \in 1 .. Len(invocations[1].steps) - 1 :
         LET sub == invocations[1].steps[k]
             ins == invocations[1].steps[k + 1]
         IN  /\ IsSubdivision(sub)
             /\ ins.active # <<>>
             /\ \E i, j \in 1 .. Len(sub.test_points) :
                   /\ i < j
                   /\ sub.test_points[i] = ins.active[1]
                   /\ sub.test_points[j] # ins.active[1]
                   /\ lineDist(sub.dividing_line[1], sub.dividing_line[2], sub.test_points[j])
                        = lineDist(sub.dividing_line[1], sub.dividing_line[2], ins.active[1])

(***************************************************************************)
(* One builder call followed one loop iteration or one quickHull body at a *)
(* time.  andrews_algorithm is unrolled into its steps: the entry, one pop *)
(* or one push per step in either scan, the change of scan, and the        *)
(* concatenation; `lower` and `upper` are the live lists.  The hull of a   *)
(* Step is a reference: a list of its own (lower.copy()) or the live list  *)
(* itself, read through HullOf.  quickhull_algorithm runs by the actions   *)
(* SeqQhEnter, SeqQhCall and SeqQhReturn.                                  *)
(***************************************************************************)
MaxRunLen == 4

RunInputs == SeqsUpTo(Point, MaxRunLen)

\* the Step refers to the live list `name` itself
Snapshot_Alias(name, chain) == [alias |-> name, value |-> chain]

\* lower.copy(), upper.copy(), list(points): a new list with the same elements
Snapshot(name, chain) == [alias |-> "none", value |-> chain]

\* what the hull of Step e shows when read while the call is in state me
HullOf(e, me) ==
    IF e.hull.alias = "lower_hull" THEN me.lower
    ELSE IF e.hull.alias = "upper_hull" THEN me.upper
    ELSE e.hull.value

NewRun(builder, step_mode, pts) ==
    [builder |-> builder, step_mode |-> step_mode, points |-> pts, foreign |-> FALSE,
     pc |-> "start", steps |-> <<>>, stack |-> <<>>, ret |-> <<>>,
     pts |-> <<>>, i |-> 0, lower |-> <<>>, upper |-> <<>>, step_counter |-> 0,
     pushes |-> 0, pops |-> 0]

RunInit ==
    /\ \E b \in {"andrews", "quickhull"}, m \in BOOLEAN, pts \in RunInputs :
          invocations = <<NewRun(b, m, pts)>>
    /\ hull = <<>>
    /\ points = <<>>
    /\ andrews_final = NotCalled
    /\ andrews_steps = NotCalled
    /\ quickhull_final = NotCalled
    /\ quickhull_steps = NotCalled
    /\ compute_andrews = NotCalled
    /\ compute_quickhull = NotCalled

Scanning(me) == me.builder = "andrews" /\ me.pc \in {"lower_hull", "upper_hull"}

\* the live list of the scan in progress
Chain(me) == IF me.pc = "lower_hull" THEN me.lower ELSE me.upper

\* pts for the lower scan, reversed(pts) for the upper scan
ScanPts(me) == IF me.pc = "lower_hull" THEN me.pts ELSE Reverse(me.pts)

\* len(chain) >= 2 and orientation(chain[-2], chain[-1], p) <= 0
MustPop(chain, p) ==
    Len(chain) >= 2 /\ orientation(chain[Len(chain) - 1], chain[Len(chain)], p) <= 0

WithChain(me, chain) ==
    IF me.pc = "lower_hull" THEN [me EXCEPT !.lower = chain] ELSE [me EXCEPT !.upper = chain]

\* the step dict appended after a pop or a push, and the counter increment
Record(me, description, active) ==
    IF me.step_mode
    THEN [me EXCEPT !.steps = Append(me.steps,
                                AndrewsStep(me.step_counter, Snapshot(me.pc, Chain(me)),
                                            description, active, me.pc)),
                    !.step_counter = me.step_counter + 1]
    ELSE me

\* the degenerate return, or the sort and the start of the lower scan
AndrewsEnter ==
    LET me == invocations[1]
    IN  /\ me.pc = "start"
        /\ me.builder = "andrews"
        /\ invocations' =
             <<IF Len(me.points) <= 1
               THEN IF me.step_mode
                    THEN [me EXCEPT !.pc = "done",
                                    !.steps = <<AndrewsStep(0, Snapshot("points", me.points),
                                                            <<"Only one or zero points">>,
                                                            me.points, "complete")>>,
                                    !.ret = <<AndrewsStep(0, Snapshot("points", me.points),
                                                          <<"Only one or zero points">>,
                                                          me.points, "complete")>>]
                    ELSE [me EXCEPT !.pc = "done", !.ret = me.points]
               ELSE [me EXCEPT !.pc = "lower_hull", !.pts = merge_sort(me.points), !.i = 1]>>
        /\ UNCHANGED hull
        /\ UNCHANGED driverVars

\* one iteration of the while loop
AndrewsPop ==
    LET me == invocations[1]
    IN  /\ Scanning(me)
        /\ me.i <= Len(me.pts)
        /\ MustPop(Chain(me), ScanPts(me)[me.i])
        /\ LET removed == Last(Chain(me))
               popped == WithChain(me, Front(Chain(me)))
           IN  invocations' =
                 <<[Record(popped, <<"Removed point", removed>>, <<removed>>)
                      EXCEPT !.pops = me.pops + 1]>>
        /\ UNCHANGED hull
        /\ UNCHANGED driverVars

\* the while loop is left: the point is appended and the for loop advances
AndrewsPush ==
    LET me == invocations[1]
    IN  /\ Scanning(me)
        /\ me.i <= Len(me.pts)
        /\ ~MustPop(Chain(me), ScanPts(me)[me.i])
        /\ LET p == ScanPts(me)[me.i]
               pushed == WithChain(me, Append(Chain(me), p))
           IN  invocations' =
                 <<[Record(pushed, <<"Added point", p, me.pc, me.i, Len(me.pts)>>, <<p>>)
                      EXCEPT !.i = me.i + 1, !.pushes = me.pushes + 1]>>
        /\ UNCHANGED hull
        /\ UNCHANGED driverVars

\* the lower scan is over: upper = [], reversed_pts
AndrewsReverse ==
    LET me == invocations[1]
    IN  /\ Scanning(me)
        /\ me.pc = "lower_hull"
        /\ me.i > Len(me.pts)
        /\ invocations' = <<[me EXCEPT !.pc = "upper_hull", !.upper = <<>>, !.i = 1,
                                       !.pushes = 0, !.pops = 0]>>
        /\ UNCHANGED hull
        /\ UNCHANGED driverVars

\* hull = lower[:-1] + upper[:-1], the last step, the return
AndrewsCombine ==
    LET me == invocations[1]
        hull_ == Combine(me.lower, me.upper)
    IN  /\ Scanning(me)
        /\ me.pc = "upper_hull"
        /\ me.i > Len(me.pts)
        /\ invocations' =
             <<IF me.step_mode
               THEN LET all == Append(me.steps,
                                 AndrewsStep(me.step_counter,
                                             [alias |-> "none", value |-> hull_],
                                             <<"Combined">>, <<>>, "complete"))
                    IN  [me EXCEPT !.pc = "done", !.steps = all, !.ret = all]
               ELSE [me EXCEPT !.pc = "done", !.ret = hull_]>>
        /\ UNCHANGED hull
        /\ UNCHANGED driverVars

RunNext ==
    \/ AndrewsEnter
    \/ AndrewsPop
    \/ AndrewsPush
    \/ AndrewsReverse
    \/ AndrewsCombine
    \/ SeqQhEnter
    \/ SeqQhCall
    \/ SeqQhReturn

SpecRun == RunInit /\ [][RunNext]_vars

MaxFairLen == 4

\* two points on the x axis and two points one unit above it
FairPoints == {<<0, 0>>, <<2, 0>>, <<1, 1>>, <<0, 1>>}

FairInputs == SeqsUpTo(FairPoints, MaxFairLen)

FairInit ==
    /\ \E b \in {"andrews", "quickhull"}, m \in BOOLEAN, pts \in FairInputs :
          invocations = <<NewRun(b, m, pts)>>
    /\ hull = <<>>
    /\ points = <<>>
    /\ andrews_final = NotCalled
    /\ andrews_steps = NotCalled
    /\ quickhull_final = NotCalled
    /\ quickhull_steps = NotCalled
    /\ compute_andrews = NotCalled
    /\ compute_quickhull = NotCalled

\* a call that can take a step takes it: the interpreter runs the one thread
SpecRunFair == FairInit /\ [][RunNext]_vars /\ WF_vars(RunNext)

\* the trace as a reader sees it once the call has returned
Resolved(trace, me) == [k \in 1 .. Len(trace) |-> [trace[k] EXCEPT !.hull = HullOf(trace[k], me)]]

\* the call unrolled into steps returns what the builder returns
RunAgrees ==
    LET me == invocations[1]
    IN  me.pc = "done" =>
          IF me.builder = "andrews"
          THEN (IF me.step_mode THEN Resolved(me.ret, me) ELSE me.ret)
                  = andrews_algorithm(me.points, me.step_mode)
          ELSE me.ret = quickhull_algorithm(me.points, me.step_mode).ret

\* the number of quickHull calls nested below the call of frame f
RECURSIVE NestDepth(_)
NestDepth(f) ==
    LET calls == quickHull(f, <<f.p1, f.p2>>, <<>>, FALSE).calls
    IN  IF calls = <<>> THEN 0
        ELSE 1 + Max(NestDepth(calls[1]), NestDepth(calls[2]))

Terminated == invocations[1].pc = "done"

\* C26: every builder call returns; each quickHull call hands each of its two
\* children strictly fewer candidates than it received, none of them equal to
\* the farthest point, so the calls nested below any quickHull call are never
\* deeper than the number of its candidates; in each monotone-chain scan the
\* pops never outnumber the pushes made before them.
C26_Termination ==
    /\ <>Terminated
    /\ [][(AtEntry /\ EnteredInd # 0) =>
            \A c \in 1 .. 2 :
               /\ Len(invocations'[1].stack[c].a) < Len(Entered.a)
               /\ ~Contains(invocations'[1].stack[c].a, Entered.a[EnteredInd])
         ]_vars
    /\ [](AtEntry => NestDepth(Entered) <= Len(Entered.a))
    /\ [](Scanning(invocations[1]) =>
            /\ invocations[1].pops <= invocations[1].pushes
            /\ Len(Chain(invocations[1])) = invocations[1].pushes - invocations[1].pops)

\* C26 witness: a quickHull call made by another quickHull call, with a
\* candidate of its own, is about to run.
C26_Witness ==
    /\ AtEntry
    /\ Len(hull) >= 3
    /\ EnteredInd # 0

\* a scan that has popped twice
C26_WitnessScan ==
    /\ Scanning(invocations[1])
    /\ invocations[1].pops >= 2

\* the trace of the call: the collector while it runs, the returned list at the end
TraceOf(me) == IF me.pc = "done" /\ me.step_mode THEN me.ret ELSE me.steps

\* the hull a reader finds in Step e of the trace while the call is in state me
ShownHull(e, me) ==
    IF me.builder = "andrews" THEN HullOf(e, me)
    ELSE IF IsDict(e) THEN e.hull ELSE e.snapshot

ShownActive(e) == IF IsDict(e) THEN e.active ELSE <<>>

\* C27: while a builder runs its trace is append-only: the number of Steps
\* never decreases and the hull and the active of a Step already appended
\* read the same after every later pop, push or insertion (a Step holds a
\* list of its own, not the live chain or working hull).
C27_AppendOnly ==
    [][LET me == invocations[1]
           after == invocations'[1]
       IN  /\ Len(TraceOf(after)) >= Len(TraceOf(me))
           /\ \A k \in 1 .. Len(TraceOf(me)) :
                 /\ ShownHull(TraceOf(after)[k], after) = ShownHull(TraceOf(me)[k], me)
                 /\ ShownActive(TraceOf(after)[k]) = ShownActive(TraceOf(me)[k])
      ]_vars

\* C27 witness: a scan in trace mode pops after three or more Steps were
\* appended: the live chain is now shorter than the one an earlier Step shows.
C27_Witness ==
    LET me == invocations[1]
    IN  /\ Scanning(me)
        /\ me.step_mode
        /\ me.pops >= 1
        /\ Len(me.steps) >= 4
        /\ \E k \in 1 .. Len(me.steps) - 1 : Len(HullOf(me.steps[k], me)) > Len(Chain(me))

NoRepeat(h) == \A i, j \in 1 .. Len(h) : i # j => h[i] # h[j]

\* pMin and pMax of the call are different points
DistinctEndpoints(me) ==
    /\ Len(me.points) >= 3
    /\ me.points[ScanMin(me.points, 2, 1)] # me.points[ScanMax(me.points, 2, 1)]

\* C28: in every quickHull call that finds a farthest point no candidate is
\* both on side `side` of p1 -> farthest and on side `side` of farthest -> p2,
\* so the candidate lists of the two children share no point, and the point
\* inserted was not in the working hull before; when pMin and pMax are
\* different points the working hull never contains a point twice.
C28_DisjointSubsets ==
    [][LET me == invocations[1]
           after == invocations'[1]
       IN  /\ (AtEntry /\ EnteredInd # 0) =>
                 LET farthest == Entered.a[EnteredInd]
                 IN  /\ \A i \in 1 .. Len(Entered.a) :
                           ~ /\ findSide(Entered.p1, farthest, Entered.a[i]) = Entered.side
                             /\ findSide(farthest, Entered.p2, Entered.a[i]) = Entered.side
                     /\ Range(after.stack[1].a) \cap Range(after.stack[2].a) = {}
                     /\ ~Contains(hull, farthest)
           /\ DistinctEndpoints(me) => NoRepeat(hull')
      ]_vars

(***************************************************************************)
(* One quickhull_algorithm call, one quickHull body per step, on points    *)
(* whose cross products need more than Mantissa bits, so that they are     *)
(* rounded.                                                                *)
(***************************************************************************)
MaxFloatLen == 4

FloatPoints == {<<0, 0>>, <<3, 0>>, <<3, 4>>, <<1, 1>>, <<1, 5>>, <<1, 6>>, <<6, 5>>}

FloatInputs == SeqsUpTo(FloatPoints, MaxFloatLen)

FloatInit ==
    /\ \E m \in BOOLEAN, pts \in FloatInputs :
          invocations = <<NewCall("quickhull", m, pts, <<>>)>>
    /\ hull = <<>>
    /\ points = <<>>
    /\ andrews_final = NotCalled
    /\ andrews_steps = NotCalled
    /\ quickhull_final = NotCalled
    /\ quickhull_steps = NotCalled
    /\ compute_andrews = NotCalled
    /\ compute_quickhull = NotCalled

SpecFloat == FloatInit /\ [][RecNext]_vars

(***************************************************************************)
(* The sequential driver of Spec on the same points: both builders in both *)
(* modes and the endpoint, on inputs whose cross products are rounded.     *)
(***************************************************************************)
RoundedInit ==
    /\ points \in FloatInputs
    /\ hull = <<>>
    /\ andrews_final = NotCalled
    /\ andrews_steps = NotCalled
    /\ quickhull_final = NotCalled
    /\ quickhull_steps = NotCalled
    /\ compute_andrews = NotCalled
    /\ compute_quickhull = NotCalled
    /\ invocations = <<>>

SpecRounded == RoundedInit /\ [][Next]_vars

\* C29: at the entry of every quickHull call reached from quickhull_algorithm
\* every candidate lies strictly on side `side` of p1 -> p2, so the
\* test_points of the subdivision Step are the whole candidate list and no
\* farthest point is found exactly when the candidate list is empty.
C29_CandidatesOnSide ==
    AtEntry =>
      /\ \A i \in 1 .. Len(Entered.a) :
            findSide(Entered.p1, Entered.p2, Entered.a[i]) = Entered.side
      /\ TestPoints(Entered.a, Entered.n, Entered.p1, Entered.p2, Entered.side) = Entered.a
      /\ EnteredInd = 0 <=> Entered.a = <<>>

(***************************************************************************)
(* andrews_for_Testing.py: the variant whose trace is a list of bare hull  *)
(* snapshots, with its own orientation, merge and merge_sort.              *)
(* st = [chain, steps].                                                    *)
(***************************************************************************)
testing_orientation(p, q, r) ==
    FloatSub(FloatMul(FloatSub(q[1], p[1]), FloatSub(r[2], p[2])),
             FloatMul(FloatSub(q[2], p[2]), FloatSub(r[1], p[1])))

RECURSIVE testing_merge(_, _)
testing_merge(left, right) ==
    IF left = <<>> THEN right
    ELSE IF right = <<>> THEN left
    ELSE IF left[1][1] < right[1][1]
            \/ (left[1][1] = right[1][1] /\ left[1][2] < right[1][2])
         THEN <<left[1]>> \o testing_merge(Tail(left), right)
         ELSE <<right[1]>> \o testing_merge(left, Tail(right))

RECURSIVE testing_merge_sort(_)
testing_merge_sort(pts_in) ==
    IF Len(pts_in) <= 1 THEN pts_in
    ELSE LET mid == Len(pts_in) \div 2
         IN  testing_merge(testing_merge_sort(SubSeq(pts_in, 1, mid)),
                           testing_merge_sort(SubSeq(pts_in, mid + 1, Len(pts_in))))

\* the while loop without the snapshot after a removal
RECURSIVE TestingPopWhile_Silent(_, _, _)
TestingPopWhile_Silent(st, p, step_mode) ==
    LET n == Len(st.chain)
    IN  IF n >= 2 /\ testing_orientation(st.chain[n - 1], st.chain[n], p) <= 0
        THEN TestingPopWhile_Silent([st EXCEPT !.chain = Front(st.chain)], p, step_mode)
        ELSE st

\* the while loop: pop, then append a copy of the chain
RECURSIVE TestingPopWhile(_, _, _)
TestingPopWhile(st, p, step_mode) ==
    LET n == Len(st.chain)
    IN  IF n >= 2 /\ testing_orientation(st.chain[n - 1], st.chain[n], p) <= 0
        THEN LET popped == Front(st.chain)
             IN  TestingPopWhile(
                   [chain |-> popped,
                    steps |-> IF step_mode THEN Append(st.steps, Bare(popped)) ELSE st.steps],
                   p, step_mode)
        ELSE st

\* the for loop over pts from position i on
RECURSIVE TestingScan(_, _, _, _)
TestingScan(st, pts, i, step_mode) ==
    IF i > Len(pts) THEN st
    ELSE LET afterPop == TestingPopWhile(st, pts[i], step_mode)
             pushed == Append(afterPop.chain, pts[i])
         IN  TestingScan(
               [chain |-> pushed,
                steps |-> IF step_mode THEN Append(afterPop.steps, Bare(pushed))
                          ELSE afterPop.steps],
               pts, i + 1, step_mode)

\* andrews_for_Testing.andrews_algorithm: the final hull or the list of snapshots
testing_andrews_algorithm(pts_in, step_mode) ==
    IF Len(pts_in) <= 1
    THEN IF step_mode THEN <<Bare(pts_in)>> ELSE pts_in
    ELSE LET pts == testing_merge_sort(pts_in)
             lo == TestingScan([chain |-> <<>>, steps |-> <<>>], pts, 1, step_mode)
             up == TestingScan([chain |-> <<>>, steps |-> lo.steps], Reverse(pts), 1, step_mode)
             hull_ == SubSeq(lo.chain, 1, Len(lo.chain) - 1) \o SubSeq(up.chain, 1, Len(up.chain) - 1)
         IN  IF step_mode THEN Append(up.steps, Bare(hull_)) ELSE hull_

(***************************************************************************)
(* The two variants called on the same input, in both modes: the rich one  *)
(* by AndrewsFinal and AndrewsTrace, the bare one by TestingFinal and      *)
(* TestingTrace, which keep their results in invocations[1].               *)
(***************************************************************************)
PairInit ==
    /\ points \in Inputs
    /\ hull = <<>>
    /\ andrews_final = NotCalled
    /\ andrews_steps = NotCalled
    /\ quickhull_final = NotCalled
    /\ quickhull_steps = NotCalled
    /\ compute_andrews = NotCalled
    /\ compute_quickhull = NotCalled
    /\ invocations = <<[final |-> NotCalled, steps |-> NotCalled]>>

TestingFinal ==
    /\ ~invocations[1].final.called
    /\ invocations' = <<[invocations[1] EXCEPT
                           !.final = Returned(testing_andrews_algorithm(points, FALSE))]>>
    /\ UNCHANGED hull
    /\ UNCHANGED driverVars

TestingTrace ==
    /\ ~invocations[1].steps.called
    /\ invocations' = <<[invocations[1] EXCEPT
                           !.steps = Returned(testing_andrews_algorithm(points, TRUE))]>>
    /\ UNCHANGED hull
    /\ UNCHANGED driverVars

PairNext ==
    \/ AndrewsFinal
    \/ AndrewsTrace
    \/ TestingFinal
    \/ TestingTrace

SpecPair == PairInit /\ [][PairNext]_vars

\* C30: on the same input the bare-snapshot variant and the rich variant
\* return the same final hull and traces of the same length, and the i-th
\* snapshot of the bare trace is the hull of the i-th Step of the rich trace.
C30_VariantsAgree ==
    /\ (andrews_final.called /\ invocations[1].final.called) =>
          invocations[1].final.value = andrews_final.value
    /\ (andrews_steps.called /\ invocations[1].steps.called) =>
          LET rich == andrews_steps.value
              bare == invocations[1].steps.value
          IN  /\ Len(bare) = Len(rich)
              /\ \A i \in 1 .. Len(rich) : bare[i].snapshot = rich[i].hull

\* C30 witness: both traces were returned for an input on which a scan pops.
C30_Witness ==
    /\ andrews_steps.called
    /\ invocations[1].steps.called
    /\ Len(points) >= 3
    /\ \E i \in 1 .. Len(andrews_steps.value) :
          andrews_steps.value[i].description[1] = "Removed point"

====
